---- MODULE Spec2Model ----
(***************************************************************************)
(* Model of utils/cache/base.py (MemoCache) and utils/cache/s3.py          *)
(* (S3QueryCache): a memory tier (cachetools.TTLCache guarded by one       *)
(* lock) in front of a file-per-key disk tier, in front of query().        *)
(*                                                                         *)
(* Every thread of the process is a record with a program counter; one    *)
(* action is one step of read_value() or clear() between two points where  *)
(* another thread, or the clock, can be observed.                          *)
(***************************************************************************)
EXTENDS Integers, Sequences, FiniteSets, TLC

\* ---------------------------------------------------------------- bounds

\* Last value of the monotonic timer the model explores.
MaxClock == 2
\* Filesystem failures one run injects at most.
MaxFaults == 1

\* ------------------------------------------------------------- constants

\* math.inf, the default of ttl and of max_entries: larger than every clock
\* value and every number of keys of the model.
inf == 1000

\* MemoCache.cache_name as overridden by S3QueryCache.
cache_name == "S3Query"

\* os.environ.get("CACHE_PATH", "./cache")
CACHE_PATH == "./cache"

\* The raw keys callers pass to read_value. A string is the sequence of its
\* ":"-separated parts.
RawKeys == {<<"a">>, <<"b">>, <<"c">>}

\* What a call of query() can do besides returning a picklable value.
Raises == "raise"

\* The picklable values query() can return.
Values == {"v1", "v2"}

\* A value query() can return that pickle.dumps refuses.
Unpicklable == "unpicklable"

\* The threads of the process.
Threads == {"t1", "t2"}

NoThread == "none"
NoKey == <<>>
NoValue == "no value"
NoBytes == <<"no bytes", "">>

\* ------------------------------------------------ keys, paths and pickle

\* key = f"{self.cache_name}:{key}"
Namespaced(raw) == <<cache_name>> \o raw

Keys == {Namespaced(raw) : raw \in RawKeys}

\* os.path.join(os.environ.get("CACHE_PATH", "./cache"), _dir)
CacheDir(value_key) == <<CACHE_PATH, Head(value_key)>>

\* _dir, file_name = value_key.split(":", 1); .../{_dir}/{file_name}.memo
FilePath(value_key) == <<CACHE_PATH, Head(value_key), Tail(value_key), "memo">>

\* pickle.dumps(value)
Dumps(value) == <<"pickle", value>>

\* What is left in a file whose write failed part-way: some of the pickle,
\* or nothing.
PartialBytes == <<"partial", "truncated">>
ZeroBytes == <<"partial", "">>

Picklable(value) == value \in Values

Decodable(bytes) == bytes[1] = "pickle"

\* pickle.loads(pickled_value), for bytes pickle can decode
Loads(bytes) == bytes[2]

\* ------------------------------------------------- cachetools.TTLCache
\* A cache is [data, links, expiry]: data maps key to value, links is the
\* OrderedDict of links in least-recently-used order, expiry is the linked
\* list of links in insertion order, each with its expiry time.

EmptyCache == [data |-> [k \in {} |-> NoBytes], links |-> <<>>, expiry |-> <<>>]

SeqWithout(s, gone) == SelectSeq(s, LAMBDA x : x \notin gone)

ExpiryWithout(s, gone) == SelectSeq(s, LAMBDA l : l.key \notin gone)

Restrict(f, gone) == [k \in (DOMAIN f) \ gone |-> f[k]]

CacheWithout(c, gone) ==
    [data |-> Restrict(c.data, gone),
     links |-> SeqWithout(c.links, gone),
     expiry |-> ExpiryWithout(c.expiry, gone)]

\* time + self.__ttl
ExpiresAt(time, ttl) == IF ttl = inf THEN inf ELSE time + ttl

\* not (time < link.expires)
LinkExpired(link, time) == ~(time < link.expires)

\* The links at the head of the expiry list that expire() unlinks.
RECURSIVE ExpiredPrefix(_, _)
ExpiredPrefix(expiry, time) ==
    IF expiry # <<>> /\ LinkExpired(Head(expiry), time)
    THEN {Head(expiry).key} \cup ExpiredPrefix(Tail(expiry), time)
    ELSE {}

\* TTLCache.expire(time)
Expire(c, time) == CacheWithout(c, ExpiredPrefix(c.expiry, time))

LinkOf(c, key) == CHOOSE l \in {c.expiry[i] : i \in DOMAIN c.expiry} : l.key = key

HasLink(c, key) == \E i \in DOMAIN c.links : c.links[i] = key

\* TTLCache.__contains__(key)
Contains(c, key, time) == HasLink(c, key) /\ ~LinkExpired(LinkOf(c, key), time)

\* TTLCache.__getlink(key): self.__links.move_to_end(key)
MovedToEnd(links, key) == Append(SeqWithout(links, {key}), key)

\* TTLCache.popitem() after its expire(): the head of links goes.
PopItem(c) == CacheWithout(c, {Head(c.links)})

\* Mutant of MakeRoom: nothing is dropped to make room.
MakeRoomNever(c, maxsize) == c

\* Cache.__setitem__'s loop: while self.__currsize + size > maxsize: popitem()
RECURSIVE MakeRoom(_, _)
MakeRoom(c, maxsize) ==
    IF Cardinality(DOMAIN c.data) + 1 > maxsize /\ c.links # <<>>
    THEN MakeRoom(PopItem(c), maxsize)
    ELSE c

\* TTLCache.__setitem__(key, value)
SetItem(c, key, value, time, maxsize, ttl) ==
    LET live == Expire(c, time)
        room == IF key \in DOMAIN live.data THEN live ELSE MakeRoom(live, maxsize)
    IN  [data |-> [k \in (DOMAIN room.data) \cup {key} |->
                      IF k = key THEN value ELSE room.data[k]],
         links |-> MovedToEnd(room.links, key),
         expiry |-> Append(ExpiryWithout(room.expiry, {key}),
                           [key |-> key, expires |-> ExpiresAt(time, ttl)])]

\* The keys __setitem__ drops to make room, beyond the expired ones.
EvictedBy(c, key, time, maxsize) ==
    LET live == Expire(c, time)
    IN  IF key \in DOMAIN live.data THEN {}
        ELSE (DOMAIN live.data) \ (DOMAIN MakeRoom(live, maxsize).data)

\* Mutant of Touch: a read leaves the order of links alone.
TouchNot(c, key) == c

\* TTLCache.__getitem__(key) on a key that has a link: the link moves to
\* the end of links before its expiry is looked at.
Touch(c, key) == [c EXCEPT !.links = MovedToEnd(c.links, key)]

\* The keys TTLCache.__iter__ would yield at one time.
LiveKeys(c, time) == {k \in DOMAIN c.data : Contains(c, k, time)}

NoFiles == [p \in {} |-> NoBytes]

\* Mutant of RemoveFile: the file stays.
RemoveFileNot(files, path) == files

\* os.remove(path), the file being there or not
RemoveFile(files, path) == Restrict(files, {path})

\* open(path, "wb") and write(bytes)
WriteFile(files, path, bytes) ==
    [p \in (DOMAIN files) \cup {path} |-> IF p = path THEN bytes ELSE files[p]]

\* ----------------------------------------------------------------- state

VARIABLES
    persist,        \* MemoCache.persist
    ttl,            \* TTLCache.ttl
    max_entries,    \* TTLCache.maxsize
    callers,        \* the threads that call into the cache
    rawKeys,        \* the raw keys they read
    results,        \* what query() can do: return one of Values, ...
    faults,         \* filesystem failures still to come
    clock,          \* time.monotonic()
    mem_cache,      \* MemoCache._mem_cache
    mem_cache_lock, \* MemoCache._mem_cache_lock: the thread holding it
    disk,           \* the files under CACHE_PATH: path -> content
    dirs,           \* the directories that exist under CACHE_PATH
    th,             \* each thread: where it is in read_value / clear
    recency,        \* history: keys by last insert or memory hit, oldest first
    capEvicted,     \* history: keys dropped to make room and not re-inserted
    everCached      \* history: keys some read has put into the memory tier

vars == <<persist, ttl, max_entries, callers, rawKeys, results, faults, clock,
          mem_cache, mem_cache_lock, disk, dirs, th, recency, capEvicted, everCached>>

config == <<persist, ttl, max_entries, callers, rawKeys, results>>

history == <<recency, capEvicted, everCached>>

\* What a thread remembers of its last call; fault: a removal failed in the
\* clear it was.
NoLast == [op |-> "none", key |-> NoKey, outcome |-> "none", route |-> "none",
           ret |-> NoValue, fault |-> FALSE, removed |-> {}]

\* A thread that is in no call.
IdleThread ==
    [pc |-> "idle", op |-> "none", rawKey |-> <<>>, key |-> NoKey,
     pickled_value |-> NoBytes, value |-> NoValue, cursor |-> 0,
     \* what the call did
     calls |-> 0, queryArg |-> NoKey, outcome |-> "none", ret |-> NoValue,
     route |-> "none", fault |-> FALSE, removed |-> {},
     \* what held when the call started
     start |-> [mem |-> EmptyCache, disk |-> NoFiles, clock |-> 0],
     wasEvicted |-> FALSE, wasCached |-> FALSE,
     last |-> NoLast]

\* MemoCache.__init__(persist, ttl, max_entries)
InitCache(p, t, m) ==
    /\ persist = p
    /\ ttl = t
    /\ max_entries = m
    /\ mem_cache = EmptyCache
    /\ mem_cache_lock = NoThread

\* The process before its first call, the timer reading now: nothing
\* cached, no cache directory.
InitProcessAt(now) ==
    /\ clock = now
    /\ disk = NoFiles
    /\ dirs = {}
    /\ th = [t \in Threads |-> IdleThread]
    /\ recency = <<>>
    /\ capEvicted = {}
    /\ everCached = {}

InitProcess == InitProcessAt(0)

\* One thread reading two keys through every construction of the cache,
\* query() and the filesystem failing as they can.
InitAll ==
    /\ \E p \in {"disk", "none"}, t \in {1, inf}, m \in {1, inf} : InitCache(p, t, m)
    /\ callers = {"t1"}
    /\ rawKeys = {<<"a">>, <<"b">>}
    /\ results = {"v1", Unpicklable, Raises}
    /\ faults = MaxFaults
    /\ InitProcess

\* One thread reading three keys through a disk-backed cache of two entries.
InitLru ==
    /\ \E t \in {1, inf} : InitCache("disk", t, 2)
    /\ callers = {"t1"}
    /\ rawKeys = RawKeys
    /\ results = {"v1"}
    /\ faults = 0
    /\ InitProcess

\* One thread reading two keys of which query() returns a value of its
\* choice at each call.
InitValues ==
    /\ \E p \in {"disk", "none"} : InitCache(p, inf, inf)
    /\ callers = {"t1"}
    /\ rawKeys = {<<"a">>, <<"b">>}
    /\ results = Values
    /\ faults = 0
    /\ InitProcess

\* Two threads reading one key and clearing a disk-backed cache, the
\* filesystem working, in a process that has been up for a while.
InitRace ==
    /\ \E t \in {1, inf} : InitCache("disk", t, inf)
    /\ callers = Threads
    /\ rawKeys = {<<"a">>}
    /\ results = {"v1"}
    /\ faults = 0
    /\ InitProcessAt(MaxClock - 1)

\* Two threads reading one key of which query() returns a value of its
\* choice at each call.
InitWriters ==
    /\ InitCache("disk", inf, inf)
    /\ callers = Threads
    /\ rawKeys = {<<"a">>}
    /\ results = Values
    /\ faults = 0
    /\ InitProcessAt(MaxClock - 1)

\* ------------------------------------------------------------ read_value

\* The call ends: with a return value or with the exception `outcome`.
Ended(rec, outcome) == [rec EXCEPT !.pc = "done", !.outcome = outcome]

\* The call ends with the exception a filesystem failure raised.
Failed(rec, outcome) == Ended([rec EXCEPT !.fault = TRUE], outcome)

\* read_value(key), line 55: key = f"{self.cache_name}:{key}"
StartRead(t, raw) ==
    /\ t \in callers
    /\ raw \in rawKeys
    /\ th[t].pc = "idle"
    /\ LET key == Namespaced(raw)
       IN th' = [th EXCEPT ![t] =
            [th[t] EXCEPT
                !.pc = "mem_contains", !.op = "read", !.rawKey = raw, !.key = key,
                !.start = [mem |-> mem_cache, disk |-> disk, clock |-> clock],
                !.wasEvicted = key \in capEvicted,
                !.wasCached = key \in everCached]]
    /\ UNCHANGED <<config, faults, clock, mem_cache, mem_cache_lock, disk, dirs, history>>

\* The caller has the result of its call and is free to call again.
Return(t) ==
    /\ th[t].pc = "done"
    /\ th' = [th EXCEPT ![t] =
         [IdleThread EXCEPT !.last =
            [op |-> th[t].op, key |-> th[t].key, outcome |-> th[t].outcome,
             route |-> th[t].route, ret |-> th[t].ret,
             fault |-> th[t].op = "clear" /\ th[t].fault,
             removed |-> th[t].removed]]]
    /\ UNCHANGED <<config, faults, clock, mem_cache, mem_cache_lock, disk, dirs, history>>

\* Mutant of AfterMemMiss: a memory miss goes to query() at once.
AfterMemMissToQuery(rec) == [rec EXCEPT !.pc = "query"]

\* except CacheKeyNotFoundError as e (lines 59-68): to the disk tier when
\* persist == "disk", otherwise raise e.
AfterMemMiss(rec) ==
    IF persist = "disk"
    THEN [rec EXCEPT !.pc = "read_disk"]
    ELSE Ended(rec, "CacheKeyNotFoundError")

\* Mutant of MemContains: the memory tier is looked up without waiting for
\* the lock.
MemContainsUnlocked(t) ==
    /\ th[t].pc = "mem_contains"
    /\ IF Contains(mem_cache, th[t].key, clock)
       THEN /\ mem_cache_lock' = t
            /\ th' = [th EXCEPT ![t].pc = "mem_getitem"]
       ELSE /\ UNCHANGED mem_cache_lock
            /\ th' = [th EXCEPT ![t] = AfterMemMiss(th[t])]
    /\ UNCHANGED <<config, faults, clock, mem_cache, disk, dirs, history>>

\* _read_from_mem_cache, lines 97-98 and 103-105: take the lock and test
\* `key in self._mem_cache`.
MemContains(t) ==
    /\ th[t].pc = "mem_contains"
    /\ mem_cache_lock = NoThread
    /\ IF Contains(mem_cache, th[t].key, clock)
       THEN /\ mem_cache_lock' = t
            /\ th' = [th EXCEPT ![t].pc = "mem_getitem"]
       ELSE /\ mem_cache_lock' = NoThread
            /\ th' = [th EXCEPT ![t] = AfterMemMiss(th[t])]
    /\ UNCHANGED <<config, faults, clock, mem_cache, disk, dirs, history>>

\* _read_from_mem_cache, lines 99-101: self._mem_cache[key], which reads the
\* timer again, and release of the lock.
MemGetItem(t) ==
    /\ th[t].pc = "mem_getitem"
    /\ mem_cache_lock = t
    /\ LET key == th[t].key
       IN /\ mem_cache' = Touch(mem_cache, key)
          /\ IF LinkExpired(LinkOf(mem_cache, key), clock)
             THEN /\ th' = [th EXCEPT ![t] = Ended(th[t], "KeyError")]
                  /\ UNCHANGED recency
             ELSE /\ th' = [th EXCEPT ![t].pc = "loads", ![t].route = "mem",
                                      ![t].pickled_value = mem_cache.data[key]]
                  /\ recency' = MovedToEnd(recency, key)
    /\ mem_cache_lock' = NoThread
    /\ UNCHANGED <<config, faults, clock, disk, dirs, capEvicted, everCached>>

\* _get_file_path, lines 153-156: the cache directory exists afterwards.
\* It fails ("makedirs" below) when os.makedirs raises: the directory cannot
\* be created, or it is there and os.path.exists answered False because
\* os.stat failed.
WithCacheDir(key) == dirs \cup {CacheDir(key)}

\* What the filesystem can do at one call: work, or fail in one of `ways`.
IoOutcomes(ways) == IF faults > 0 THEN {"ok"} \cup ways ELSE {"ok"}

Injected(io) == faults' = IF io = "ok" THEN faults ELSE faults - 1

\* Mutant of ReadDisk: a read that fails counts as a miss and goes on to
\* query().
ReadDiskFailureAsMiss(t) ==
    /\ th[t].pc = "read_disk"
    /\ \E io \in IoOutcomes({"read"}) :
        LET path == FilePath(th[t].key)
        IN  /\ Injected(io)
            /\ dirs' = WithCacheDir(th[t].key)
            /\ th' = [th EXCEPT ![t] =
                 IF io = "read"
                 THEN [th[t] EXCEPT !.pc = "query", !.fault = TRUE]
                 ELSE IF path \in DOMAIN disk
                 THEN [th[t] EXCEPT !.pc = "promote", !.pickled_value = disk[path]]
                 ELSE [th[t] EXCEPT !.pc = "query"]]
    /\ UNCHANGED <<config, clock, mem_cache, mem_cache_lock, disk, history>>

\* _read_from_disk_cache (lines 107-118) and what read_value does with its
\* result (lines 62-66). io is what the filesystem does: "ok", "makedirs"
\* (os.makedirs fails) or "read" (open or read fails, the file being there
\* or not).
ReadDisk(t) ==
    /\ th[t].pc = "read_disk"
    /\ \E io \in IoOutcomes({"makedirs", "read"}) :
        LET key == th[t].key
            path == FilePath(key)
        IN  /\ Injected(io)
            /\ IF io = "makedirs"
               THEN /\ th' = [th EXCEPT ![t] = Failed(th[t], "OSError")]
                    /\ UNCHANGED dirs
               ELSE /\ dirs' = WithCacheDir(key)
                    /\ th' = [th EXCEPT ![t] =
                         IF io = "read"
                         THEN Failed(th[t], "CacheError")
                         ELSE IF path \in DOMAIN disk
                         THEN [th[t] EXCEPT !.pc = "promote", !.pickled_value = disk[path]]
                         ELSE [th[t] EXCEPT !.pc = "query"]]
    /\ UNCHANGED <<config, clock, mem_cache, mem_cache_lock, disk, history>>

\* _write_to_mem_cache (lines 120-122) with the history it leaves.
WriteToMemCache(key, pickled_value) ==
    /\ mem_cache_lock = NoThread
    /\ mem_cache' = SetItem(mem_cache, key, pickled_value, clock, max_entries, ttl)
    /\ recency' = MovedToEnd(recency, key)
    /\ capEvicted' = (capEvicted \cup EvictedBy(mem_cache, key, clock, max_entries)) \ {key}
    /\ everCached' = everCached \cup {key}
    /\ UNCHANGED mem_cache_lock

\* Mutant of Promote: the bytes found on disk are not written to memory.
PromoteSkipped(t) ==
    /\ th[t].pc = "promote"
    /\ th' = [th EXCEPT ![t].pc = "loads", ![t].route = "disk"]
    /\ UNCHANGED <<config, faults, clock, mem_cache, mem_cache_lock, disk, dirs, history>>

\* read_value, line 63: the bytes found on disk go into the memory tier.
Promote(t) ==
    /\ th[t].pc = "promote"
    /\ WriteToMemCache(th[t].key, th[t].pickled_value)
    /\ th' = [th EXCEPT ![t].pc = "loads", ![t].route = "disk"]
    /\ UNCHANGED <<config, faults, clock, disk, dirs>>

\* Mutant of Query: a query() that raises is called a second time.
QueryRetried(t) ==
    /\ th[t].pc = "query"
    /\ \E result \in results :
        th' = [th EXCEPT ![t] =
             IF result = Raises
             THEN Ended([th[t] EXCEPT !.calls = @ + 2, !.queryArg = th[t].key],
                        "SourceError")
             ELSE [th[t] EXCEPT !.calls = @ + 1, !.queryArg = th[t].key,
                                !.pc = "write_value", !.value = result]]
    /\ UNCHANGED <<config, faults, clock, mem_cache, mem_cache_lock, disk, dirs, history>>

\* Mutant of Query: a thread that finds the key in memory by now, another
\* thread having written it, takes those bytes and does not call query().
QueryUnlessCached(t) ==
    /\ th[t].pc = "query"
    /\ IF Contains(mem_cache, th[t].key, clock)
       THEN th' = [th EXCEPT ![t].pc = "loads", ![t].route = "mem",
                             ![t].pickled_value = mem_cache.data[th[t].key]]
       ELSE \E result \in results :
            LET called == [th[t] EXCEPT !.calls = @ + 1, !.queryArg = th[t].key]
            IN th' = [th EXCEPT ![t] =
                 IF result = Raises
                 THEN Ended(called, "SourceError")
                 ELSE [called EXCEPT !.pc = "write_value", !.value = result]]
    /\ UNCHANGED <<config, faults, clock, mem_cache, mem_cache_lock, disk, dirs, history>>

\* read_value, line 65: value = self.query(key), key being the name bound
\* on line 55. query returns a value or raises.
Query(t) ==
    /\ th[t].pc = "query"
    /\ \E result \in results :
        LET called == [th[t] EXCEPT !.calls = @ + 1, !.queryArg = th[t].key]
        IN th' = [th EXCEPT ![t] =
             IF result = Raises
             THEN Ended(called, "SourceError")
             ELSE [called EXCEPT !.pc = "write_value", !.value = result]]
    /\ UNCHANGED <<config, faults, clock, mem_cache, mem_cache_lock, disk, dirs, history>>

\* _write_value, lines 77-83: pickle the value and write it to memory.
WriteValue(t) ==
    /\ th[t].pc = "write_value"
    /\ IF Picklable(th[t].value)
       THEN /\ WriteToMemCache(th[t].key, Dumps(th[t].value))
            /\ th' = [th EXCEPT ![t].pickled_value = Dumps(th[t].value),
                                ![t].route = "source",
                                ![t].pc = IF persist = "disk" THEN "write_disk"
                                          ELSE "loads"]
       ELSE /\ th' = [th EXCEPT ![t] = Ended(th[t], "CacheError")]
            /\ UNCHANGED <<mem_cache, mem_cache_lock, history>>
    /\ UNCHANGED <<config, faults, clock, disk, dirs>>

\* The files after a failed write to path and its clean-up (lines 129-135):
\* the file gone, left part-written, or left as it was before the write.
AfterFailedWrite(path) ==
    {RemoveFile(disk, path), WriteFile(disk, path, PartialBytes),
     WriteFile(disk, path, ZeroBytes), disk}

\* Mutant of WriteDisk: a write that fails is not raised; the read goes on
\* with the bytes it has.
WriteDiskSwallowed(t) ==
    /\ th[t].pc = "write_disk"
    /\ \E io \in IoOutcomes({"write"}) :
        LET path == FilePath(th[t].key)
        IN  /\ Injected(io)
            /\ dirs' = WithCacheDir(th[t].key)
            /\ IF io = "write"
               THEN /\ disk' \in AfterFailedWrite(path)
                    /\ th' = [th EXCEPT ![t].pc = "loads", ![t].fault = TRUE]
               ELSE /\ disk' = WriteFile(disk, path, th[t].pickled_value)
                    /\ th' = [th EXCEPT ![t].pc = "loads"]
    /\ UNCHANGED <<config, clock, mem_cache, mem_cache_lock, history>>

\* _write_to_disk_cache, lines 124-136. io: "ok", "makedirs" (os.makedirs
\* fails) or "write" (streamlit_write raises util.Error).
WriteDisk(t) ==
    /\ th[t].pc = "write_disk"
    /\ \E io \in IoOutcomes({"makedirs", "write"}) :
        LET key == th[t].key
            path == FilePath(key)
        IN  /\ Injected(io)
            /\ IF io = "makedirs"
               THEN /\ th' = [th EXCEPT ![t] = Failed(th[t], "OSError")]
                    /\ UNCHANGED <<dirs, disk>>
               ELSE /\ dirs' = WithCacheDir(key)
                    /\ IF io = "write"
                       THEN /\ disk' \in AfterFailedWrite(path)
                            /\ th' = [th EXCEPT ![t] = Failed(th[t], "CacheError")]
                       ELSE /\ disk' = WriteFile(disk, path, th[t].pickled_value)
                            /\ th' = [th EXCEPT ![t].pc = "loads"]
    /\ UNCHANGED <<config, clock, mem_cache, mem_cache_lock, history>>

\* read_value, lines 70-73: pickle.loads(pickled_value). Of bytes it cannot
\* decode, pickle raises UnpicklingError, which becomes CacheError, except
\* of no bytes at all: EOFError, which line 72 does not catch.
LoadsValue(t) ==
    /\ th[t].pc = "loads"
    /\ th' = [th EXCEPT ![t] =
         IF Decodable(th[t].pickled_value)
         THEN Ended([th[t] EXCEPT !.ret = Loads(th[t].pickled_value)], "ok")
         ELSE IF th[t].pickled_value = ZeroBytes
         THEN Ended(th[t], "EOFError")
         ELSE Ended(th[t], "CacheError")]
    /\ UNCHANGED <<config, faults, clock, mem_cache, mem_cache_lock, disk, dirs, history>>

\* ----------------------------------------------------------------- clear

\* clear, line 88: with self._mem_cache_lock, and the iterator of line 91.
StartClear(t) ==
    /\ t \in callers
    /\ th[t].pc = "idle"
    /\ mem_cache_lock = NoThread
    /\ mem_cache_lock' = t
    /\ th' = [th EXCEPT ![t].pc = "clear_keys", ![t].op = "clear", ![t].cursor = 1]
    /\ UNCHANGED <<config, faults, clock, mem_cache, disk, dirs, history>>

\* clear, lines 91-92: TTLCache.__iter__ steps to the next link and yields
\* its key unless the link has expired; _remove_from_disk_cache (lines
\* 138-148) of the key yielded. io: "ok", "makedirs" (os.makedirs fails in
\* _get_file_path, outside the try) or "remove" (os.remove fails otherwise
\* than with FileNotFoundError: logged).
ClearKey(t) ==
    /\ th[t].pc = "clear_keys"
    /\ mem_cache_lock = t
    /\ th[t].cursor <= Len(mem_cache.expiry)
    /\ LET link == mem_cache.expiry[th[t].cursor]
           path == FilePath(link.key)
           next == [th[t] EXCEPT !.cursor = @ + 1]
       IN  IF LinkExpired(link, clock)
           THEN /\ th' = [th EXCEPT ![t] = next]
                /\ UNCHANGED <<faults, disk, dirs, mem_cache_lock>>
           ELSE \E io \in IoOutcomes({"makedirs", "remove"}) :
                /\ Injected(io)
                /\ IF io = "makedirs"
                   THEN /\ th' = [th EXCEPT ![t] = Failed(th[t], "OSError")]
                        /\ mem_cache_lock' = NoThread
                        /\ UNCHANGED <<disk, dirs>>
                   ELSE /\ dirs' = WithCacheDir(link.key)
                        /\ UNCHANGED mem_cache_lock
                        /\ IF io = "remove"
                           THEN /\ path \in DOMAIN disk
                                /\ th' = [th EXCEPT ![t] = [next EXCEPT !.fault = TRUE]]
                                /\ UNCHANGED disk
                           ELSE /\ disk' = RemoveFile(disk, path)
                                /\ th' = [th EXCEPT ![t] =
                                       [next EXCEPT !.removed = @ \cup {link.key}]]
    /\ UNCHANGED <<config, clock, mem_cache, history>>

\* clear, line 94: self._mem_cache.clear(), and release of the lock.
ClearMem(t) ==
    /\ th[t].pc = "clear_keys"
    /\ mem_cache_lock = t
    /\ th[t].cursor > Len(mem_cache.expiry)
    /\ mem_cache' = EmptyCache
    /\ mem_cache_lock' = NoThread
    /\ th' = [th EXCEPT ![t] = Ended(th[t], "ok")]
    /\ UNCHANGED <<config, faults, clock, disk, dirs, history>>

\* ----------------------------------------------------------------- clock

\* time.monotonic() moves on.
Tick ==
    /\ clock < MaxClock
    /\ clock' = clock + 1
    /\ UNCHANGED <<config, faults, mem_cache, mem_cache_lock, disk, dirs, th, history>>

Next ==
    \/ \E t \in Threads, raw \in RawKeys : StartRead(t, raw)
    \/ \E t \in Threads : Return(t)
    \/ \E t \in Threads : MemContains(t)
    \/ \E t \in Threads : MemGetItem(t)
    \/ \E t \in Threads : ReadDisk(t)
    \/ \E t \in Threads : Promote(t)
    \/ \E t \in Threads : Query(t)
    \/ \E t \in Threads : WriteValue(t)
    \/ \E t \in Threads : WriteDisk(t)
    \/ \E t \in Threads : LoadsValue(t)
    \/ \E t \in Threads : StartClear(t)
    \/ \E t \in Threads : ClearKey(t)
    \/ \E t \in Threads : ClearMem(t)
    \/ Tick

Init == InitAll \/ InitLru \/ InitValues

Spec == Init /\ [][Next]_vars

\* The same steps taken by two threads at once.
SpecRace == InitRace /\ [][Next]_vars

SpecWriters == InitWriters /\ [][Next]_vars

\* ---------------------------------------------------------------- claims

ReadDone(t) == th[t].pc = "done" /\ th[t].op = "read"

\* What held of the call's key when the call started.
StartInMem(t) == th[t].key \in DOMAIN th[t].start.mem.data
StartLive(t) == Contains(th[t].start.mem, th[t].key, th[t].start.clock)
StartOnDisk(t) == FilePath(th[t].key) \in DOMAIN th[t].start.disk
StartAbsent(t) == ~StartInMem(t) /\ ~StartOnDisk(t)

\* query(), if the call reached it, returned a value pickle accepts.
SourceAnswered(t) == th[t].outcome # "SourceError" /\ th[t].value # Unpicklable

\* The call met no filesystem failure and no failure of query().
Undisturbed(t) == ~th[t].fault /\ SourceAnswered(t)

\* No call of the run has met a filesystem failure.
NoFailureYet == faults = MaxFaults

\* The thread's previous call was a read of the same key that went to
\* query() and returned its value.
FollowsSourceRead(t) ==
    /\ th[t].last.op = "read"
    /\ th[t].last.key = th[t].key
    /\ th[t].last.route = "source"
    /\ th[t].last.outcome = "ok"

\* C1: a read of a key that is in neither tier calls query() exactly once
\* and returns what query() returned; the read of the same key that follows
\* it and hits the memory tier returns the same value without calling
\* query().
C1_FirstReadQueriesOnce ==
    \A t \in Threads :
        /\ ReadDone(t) /\ StartAbsent(t) /\ Undisturbed(t)
           => /\ th[t].calls = 1
              /\ th[t].outcome = "ok"
              /\ th[t].ret = th[t].value
        /\ ReadDone(t) /\ FollowsSourceRead(t) /\ th[t].route = "mem"
           => /\ th[t].calls = 0
              /\ th[t].outcome = "ok"
              /\ th[t].ret = th[t].last.ret

\* The part of C1 that the code keeps: the same, of a cache with
\* persist == "disk".
C1_HoldsOnDisk == persist = "disk" => C1_FirstReadQueriesOnce

\* C2: with persist other than "disk", a read that misses the memory tier
\* calls query() exactly once, returns its value and leaves the key in the
\* memory tier.
C2_NoDiskMissQueries ==
    \A t \in Threads :
        ReadDone(t) /\ persist # "disk" /\ ~StartLive(t) /\ Undisturbed(t)
        => /\ th[t].calls = 1
           /\ th[t].outcome = "ok"
           /\ th[t].ret = th[t].value
           /\ th[t].key \in DOMAIN mem_cache.data

\* C3: no read ends with CacheKeyNotFoundError.
C3_NotFoundNeverSurfaces ==
    \A t \in Threads : ReadDone(t) => th[t].outcome # "CacheKeyNotFoundError"

\* The thread's previous call was a clear that returned, no removal of a
\* file having failed in it.
FollowsClear(t) ==
    /\ th[t].last.op = "clear"
    /\ th[t].last.outcome = "ok"
    /\ ~th[t].last.fault

\* C4 as stated: the read of a key that capacity pressure has evicted from
\* the memory tier calls query() again.
C4_EvictedKeyQueriesAgain ==
    \A t \in Threads :
        ReadDone(t) /\ th[t].wasEvicted /\ NoFailureYet /\ SourceAnswered(t)
        => th[t].calls = 1

\* C4 as amended: the read of a key that capacity pressure has evicted from
\* the memory tier misses memory and goes to the disk tier; it is served
\* from the key's file, without a call of query(), when the file exists,
\* and calls query() once when it does not.
C4_EvictedKeyReadsDisk ==
    \A t \in Threads :
        ReadDone(t) /\ th[t].wasEvicted /\ ~th[t].fault
        => /\ ~StartInMem(t)
           /\ th[t].route # "mem"
           /\ StartOnDisk(t) => th[t].calls = 0 /\ th[t].route = "disk"
           /\ ~StartOnDisk(t) => th[t].calls = 1

C4_Witness ==
    \E t \in Threads :
        /\ ReadDone(t) /\ th[t].wasEvicted /\ ~th[t].fault
        /\ StartOnDisk(t)
        /\ th[t].calls = 0
        /\ th[t].outcome = "ok"

\* C5 as stated: after a clear, the read of any key an earlier read cached
\* finds it in neither tier and calls query() again.
C5_ClearThenReadQueries ==
    \A t \in Threads :
        ReadDone(t) /\ FollowsClear(t) /\ th[t].wasCached
            /\ NoFailureYet /\ SourceAnswered(t)
        => StartAbsent(t) /\ th[t].calls = 1

\* C5 as amended: a clear that returns leaves the memory tier empty and no
\* file for any key it enumerated and removed; the read of such a key that
\* follows finds it in neither tier and calls query() again.
C5_ClearedKeysQueryAgain ==
    \A t \in Threads :
        /\ th[t].pc = "done" /\ th[t].op = "clear" /\ th[t].outcome = "ok"
           => /\ mem_cache.data = EmptyCache.data
              /\ \A k \in th[t].removed : FilePath(k) \notin DOMAIN disk
        /\ ReadDone(t) /\ th[t].last.op = "clear" /\ th[t].last.outcome = "ok"
              /\ th[t].key \in th[t].last.removed /\ ~th[t].fault
           => StartAbsent(t) /\ th[t].calls = 1

C5_Witness ==
    \E t \in Threads :
        /\ ReadDone(t) /\ th[t].last.op = "clear"
        /\ th[t].key \in th[t].last.removed
        /\ StartAbsent(t)
        /\ th[t].calls = 1
        /\ th[t].outcome = "ok"

\* C6: the memory tier never holds more than max_entries entries.
C6_SizeBounded == Cardinality(DOMAIN mem_cache.data) <= max_entries

C6_Witness ==
    /\ capEvicted # {}
    /\ Cardinality(DOMAIN mem_cache.data) = max_entries

\* Thread t writes its key into the memory tier in this step.
InsertStep(t) ==
    /\ th[t].pc \in {"promote", "write_value"}
    /\ th'[t].pc \in {"loads", "write_disk"}

\* The entries read or written least recently come first.
LiveByRecency(live) == SelectSeq(recency, LAMBDA k : k \in live)

\* What C7 says of one insert by thread t.
EvictsLeastRecentlyUsed(t) ==
    LET key == th[t].key
        live == LiveKeys(mem_cache, clock)
        expired == (DOMAIN mem_cache.data) \ live
        gone == live \ DOMAIN mem_cache'.data
    IN  /\ expired \cap DOMAIN mem_cache'.data \subseteq {key}
        /\ gone # {} => /\ key \notin live
                        /\ Cardinality(live) = max_entries
                        /\ gone = {Head(LiveByRecency(live))}

\* C7: an insert into the memory tier drops every expired entry first; it
\* drops an entry that has not expired only when those fill the tier, and
\* then the one whose last insert or memory-hit read is the oldest.
C7_EvictsLeastRecentlyUsed ==
    [][\A t \in Threads : InsertStep(t) => EvictsLeastRecentlyUsed(t)]_vars

\* Position of key in the expiry list, which is in order of insertion.
InsertedAt(c, key) == CHOOSE i \in DOMAIN c.expiry : c.expiry[i].key = key

\* A key inserted before another one and read after it survives the insert
\* that evicts the other one.
C7_Witness ==
    \E t \in Threads : \E a, b \in DOMAIN th[t].start.mem.data :
        /\ th[t].pc = "write_disk"
        /\ InsertedAt(th[t].start.mem, a) < InsertedAt(th[t].start.mem, b)
        /\ b \in LiveKeys(th[t].start.mem, clock)
        /\ b \notin DOMAIN mem_cache.data
        /\ a \in DOMAIN mem_cache.data
        /\ th[t].last.key = a
        /\ th[t].last.route = "mem"

\* The call started with an entry for its key in memory that had outlived
\* ttl, and with a file for the key on disk.
StartExpiredOnDisk(t) == StartInMem(t) /\ ~StartLive(t) /\ StartOnDisk(t)

\* What C8 says of a read that has ended.
ExpiredEntryServedFromDisk(t) ==
    LET key == th[t].key
        bytes == th[t].start.disk[FilePath(key)]
    IN  /\ th[t].calls = 0
        /\ th[t].route = "disk"
        /\ disk = th[t].start.disk
        /\ key \in DOMAIN mem_cache.data
        /\ mem_cache.data[key] = bytes
        /\ LinkOf(mem_cache, key).expires >= ExpiresAt(th[t].start.clock, ttl)
        /\ Decodable(bytes) => th[t].outcome = "ok" /\ th[t].ret = Loads(bytes)

\* C8: with persist == "disk", the read of a key whose memory entry has
\* outlived ttl and whose file exists returns the value in the file without
\* calling query() and puts the key back into memory; and the files change
\* only where a thread writes one or clear removes one, never as time
\* passes.
C8_ExpiredEntryServedFromDisk ==
    [][/\ disk' # disk => \E t \in Threads : th[t].pc \in {"write_disk", "clear_keys"}
       /\ \A t \in Threads :
            (ReadDone(t) /\ persist = "disk" /\ StartExpiredOnDisk(t) /\ ~th[t].fault
             => ExpiredEntryServedFromDisk(t))']_vars

C8_Witness ==
    \E t \in Threads :
        /\ ReadDone(t) /\ StartExpiredOnDisk(t) /\ ~th[t].fault
        /\ th[t].start.clock > 0
        /\ th[t].route = "disk"
        /\ th[t].outcome = "ok"

\* C9: query() is called with the raw key the caller passed to read_value.
C9_QueryGetsRawKey ==
    \A t \in Threads : th[t].calls > 0 => th[t].queryArg = th[t].rawKey

\* The thread's previous call was a read of the same key in which query()
\* raised.
FollowsSourceError(t) ==
    /\ th[t].last.op = "read"
    /\ th[t].last.key = th[t].key
    /\ th[t].last.outcome = "SourceError"

\* C10: a read in which query() raises ends with that exception after one
\* call of query(), returns nothing and leaves both tiers as they were; the
\* read of the same key that follows calls query() again.
C10_SourceFailurePropagates ==
    \A t \in Threads :
        /\ th[t].calls <= 1
        /\ ReadDone(t) /\ th[t].outcome = "SourceError"
           => /\ th[t].calls = 1
              /\ th[t].ret = NoValue
              /\ mem_cache = th[t].start.mem
              /\ disk = th[t].start.disk
        /\ ReadDone(t) /\ FollowsSourceError(t) /\ ~th[t].fault
           => th[t].calls = 1

C10_Witness ==
    \E t \in Threads :
        /\ ReadDone(t) /\ FollowsSourceError(t)
        /\ th[t].calls = 1
        /\ th[t].outcome = "ok"

\* The disk write of the call's write-through failed.
WriteFailed(t) == th[t].route = "source" /\ th[t].fault

\* The thread's previous call was a read of the same key whose disk write
\* failed.
FollowsFailedWrite(t) ==
    /\ th[t].last.op = "read"
    /\ th[t].last.key = th[t].key
    /\ th[t].last.route = "source"
    /\ th[t].last.outcome \in {"CacheError", "OSError"}

\* C11 as stated: a read whose disk write fails ends with an error and
\* leaves no file for its key on disk.
C11_FailedWriteLeavesNoFile ==
    \A t \in Threads :
        ReadDone(t) /\ WriteFailed(t)
        => /\ th[t].outcome # "ok"
           /\ FilePath(th[t].key) \notin DOMAIN disk

\* C11 as amended: a read whose disk write fails ends with an error and
\* returns nothing; the memory tier holds the bytes of the value query()
\* returned; the file of the key, when the removal after the failure has
\* failed too, is left part-written, empty or as it was before the write.
\* No read returns a value decoded from part-written bytes: a read returns
\* a value query() can return, and the read that finds part-written bytes
\* ends with an error.
C11_FailedWriteSurfaces ==
    \A t \in Threads :
        LET key == th[t].key
            path == FilePath(key)
        IN  /\ ReadDone(t) /\ WriteFailed(t)
               => /\ th[t].outcome \in {"CacheError", "OSError"}
                  /\ th[t].ret = NoValue
                  /\ key \in DOMAIN mem_cache.data
                  /\ mem_cache.data[key] = Dumps(th[t].value)
                  /\ path \in DOMAIN disk
                     => \/ disk[path] \in {PartialBytes, ZeroBytes}
                        \/ /\ path \in DOMAIN th[t].start.disk
                           /\ disk[path] = th[t].start.disk[path]
            /\ ReadDone(t) /\ th[t].outcome = "ok"
               => /\ th[t].ret \in Values
                  /\ th[t].pickled_value \notin {PartialBytes, ZeroBytes}
            /\ ReadDone(t) /\ th[t].pickled_value \in {PartialBytes, ZeroBytes}
               => /\ th[t].outcome \in {"CacheError", "EOFError"}
                  /\ th[t].ret = NoValue

\* The read after a failed write finds the part-written file the failure
\* left and ends with an error.
C11_Witness ==
    \E t \in Threads :
        /\ ReadDone(t) /\ FollowsFailedWrite(t)
        /\ th[t].route = "disk"
        /\ th[t].pickled_value = PartialBytes
        /\ th[t].outcome = "CacheError"

\* C12: clear never ends with an error; it ends with the memory tier
\* empty, whatever the removal of the files does.
C12_ClearNeverFails ==
    \A t \in Threads :
        th[t].pc = "done" /\ th[t].op = "clear"
        => /\ th[t].outcome = "ok"
           /\ mem_cache.data = EmptyCache.data

\* The read of the call's file, or the derivation of its path before the
\* read, failed.
DiskReadFailed(t) == th[t].fault /\ th[t].route # "source"

\* C13: with persist == "disk", a read that misses memory and whose disk
\* read fails otherwise than by the file being absent ends with an error,
\* without a call of query() and with both tiers as they were.
C13_DiskReadFailureSurfaces ==
    \A t \in Threads :
        ReadDone(t) /\ DiskReadFailed(t)
        => /\ persist = "disk"
           /\ ~Contains(mem_cache, th[t].key, clock)
           /\ th[t].outcome \in {"CacheError", "OSError"}
           /\ th[t].calls = 0
           /\ th[t].ret = NoValue
           /\ mem_cache = th[t].start.mem
           /\ disk = th[t].start.disk

\* The file was there and could not be read.
C13_Witness ==
    \E t \in Threads :
        /\ ReadDone(t) /\ DiskReadFailed(t)
        /\ StartOnDisk(t)
        /\ th[t].outcome = "CacheError"

\* No thread is in a call.
Quiescent == \A t \in Threads : th[t].pc \in {"idle", "done"}

\* C14, its last part: with persist == "disk", when no call is in progress
\* every key of the memory tier has a file on disk.
C14_MemoryKeysOnDisk ==
    persist = "disk" /\ Quiescent
    => \A key \in DOMAIN mem_cache.data : FilePath(key) \in DOMAIN disk

\* The thread's previous call was a clear that returned and that found the
\* key of the present call in memory and removed its file.
FollowsClearOfKey(t) ==
    /\ th[t].last.op = "clear"
    /\ th[t].last.outcome = "ok"
    /\ th[t].key \in th[t].last.removed

\* C15: a read that starts after a clear has emptied memory does not find
\* a key the clear found in memory missing from memory and on disk.
C15_NoStaleFileAfterClear ==
    \A t \in Threads :
        th[t].op = "read" /\ FollowsClearOfKey(t) => th[t].pc # "promote"

\* Where a thread is inside `with self._mem_cache_lock` between two steps.
InCriticalSection(t) == th[t].pc \in {"mem_getitem", "clear_keys"}

\* Where a thread is about to read, write or query.
AtDiskOrSource(t) == th[t].pc \in {"read_disk", "query", "write_disk"}

\* C16: one thread at most holds the lock, and it is the one thread that
\* is inside a critical section; a thread about to read or write a file or
\* to call query() does not hold it, and the one that removes files holds
\* it and is in clear.
C16_LockDiscipline ==
    /\ mem_cache_lock \in Threads \cup {NoThread}
    /\ \A t \in Threads : InCriticalSection(t) <=> mem_cache_lock = t
    /\ \A t, u \in Threads : InCriticalSection(t) /\ InCriticalSection(u) => t = u
    /\ \A t \in Threads :
        /\ AtDiskOrSource(t) => mem_cache_lock # t /\ th[t].op = "read"
        /\ th[t].pc = "clear_keys" => th[t].op = "clear"
        /\ th[t].pc = "mem_getitem" => th[t].op = "read"

\* A thread writes its file while the other one holds the lock in clear.
C16_Witness ==
    \E t, u \in Threads :
        /\ th[t].pc = "clear_keys" /\ mem_cache_lock = t
        /\ th[t].cursor > 1
        /\ th[u].pc = "loads" /\ th[u].route = "source"
        /\ FilePath(th[u].key) \in DOMAIN disk

\* C17: a read that has missed both tiers calls query() whatever the other
\* threads are doing or have done since; and a read that has called query()
\* and met no failure returns the value its own call returned.
C17_NoSingleFlight ==
    [][\A t \in Threads :
        /\ th[t].pc = "query" /\ th'[t] # th[t] => th'[t].calls = th[t].calls + 1
        /\ (ReadDone(t) /\ th[t].calls > 0 /\ Undisturbed(t)
            => /\ th[t].calls = 1
               /\ th[t].outcome = "ok"
               /\ th[t].ret = th[t].value)']_vars

\* Two reads of a key that was in neither tier have both called query(),
\* written through and returned its value, no clear and no eviction having
\* happened; query() returned a value to one and another value to the other.
C17_Witness ==
    /\ ttl = inf
    /\ \E t, u \in Threads : th[t].ret # th[u].ret
    /\ \A t \in Threads :
        /\ ReadDone(t) /\ StartAbsent(t)
        /\ th[t].key = Namespaced(<<"a">>)
        /\ th[t].last.op = "none"
        /\ th[t].calls = 1
        /\ th[t].route = "source"
        /\ th[t].outcome = "ok"
        /\ th[t].ret = th[t].value

\* The call has ended on bytes pickle.loads could not decode.
Undecodable(t) ==
    /\ ReadDone(t)
    /\ th[t].route \in {"mem", "disk"}
    /\ ~Decodable(th[t].pickled_value)

\* C18: a read that finds bytes it cannot decode in one tier ends with
\* CacheError and leaves the other tier as it was: memory when the bytes
\* came from disk, the files when they came from memory.
C18_UndecodableLeavesOtherTier ==
    \A t \in Threads :
        Undecodable(t)
        => /\ th[t].outcome = "CacheError"
           /\ th[t].route = "disk" => mem_cache = th[t].start.mem
           /\ th[t].route = "mem" => disk = th[t].start.disk

\* C19: when no call is in progress, a key that is both in memory and on
\* disk has the same bytes in both.
C19_TiersAgree ==
    Quiescent
    => \A key \in DOMAIN mem_cache.data :
        FilePath(key) \in DOMAIN disk => mem_cache.data[key] = disk[FilePath(key)]

\* C20: deriving the path of a key changes nothing on the filesystem: a
\* directory appears only in the step in which a thread writes its file,
\* and a read that misses on disk and a removal by clear leave files and
\* directories as they are, but for the file removed.
C20_PathDerivationIsPure ==
    [][\A t \in Threads :
        /\ dirs' # dirs => \E u \in Threads : th[u].pc = "write_disk" /\ th'[u] # th[u]
        /\ th[t].pc = "read_disk" /\ th'[t].pc = "query"
           => dirs' = dirs /\ disk' = disk
        /\ th[t].pc = "clear_keys" /\ th'[t] # th[t]
           => /\ dirs' = dirs
              /\ \A path \in DOMAIN disk' : path \in DOMAIN disk /\ disk'[path] = disk[path]]_vars

====
